---- MODULE Spec2Model ----
(***************************************************************************)
(* RateLimiter (src/src/lib/validation.ts, lines 52-98): a process-wide    *)
(* map from identifier to { count, lastAttempt, blockedUntil? } with two   *)
(* static, synchronous operations, isBlocked and recordAttempt.            *)
(*                                                                         *)
(* Dates are milliseconds since the epoch.  The clock only moves forward,  *)
(* in steps of Tick.  A record is a TLA+ record whose blockedUntil field   *)
(* is present exactly when the JavaScript property is.                     *)
(***************************************************************************)
EXTENDS Integers, Sequences, FiniteSets, TLC

VARIABLES
    now,        \* the wall clock read by new Date()
    attempts,   \* RateLimiter.attempts: the Map identifier -> record
    frame,      \* per caller, the call it is executing: the values it has read so far
    call,       \* the last completed call: operation, identifier, times, value read, value returned
    hist,       \* per identifier, what an observer of the calls has seen so far
    allowedAt,  \* per identifier, the times of the recent allowed recordAttempt calls
    serial,     \* the map of a limiter that runs every call in one piece, in order of completion
    mw,         \* middleware: the request being handled and the response to it
    polls,      \* the polls table: id -> row
    nextId,     \* the number of ids the polls table has generated
    req,        \* per connection, the poll API request being handled
    auth,       \* AuthProvider: its state, its effect's closure, the pending promises and event
    form        \* NewPollForm: the form values and the component state

rateVars == <<now, attempts, frame, call, hist, allowedAt, serial>>

mwVars == <<mw>>

pollVars == <<polls, nextId, req>>

clientVars == <<auth, form>>

appVars == <<mwVars, pollVars, clientVars>>

vars == <<rateVars, appVars>>

----------------------------------------------------------------------------
(* Program constants and the bounds of the model.                          *)

maxAttempts == 5

windowDuration == 15 * 60 * 1000

blockDuration == 15 * 60 * 1000

TicksPerWindow == 3

MaxTicks == 4

Tick == windowDuration \div TicksPerWindow

MaxTime == MaxTicks * Tick

Times == {k * Tick : k \in 0..MaxTicks}

Identifiers == {"a", "b"}

\* request handlers that may be in flight in the process at the same time
Callers == {"c1", "c2"}

----------------------------------------------------------------------------
(* Map<string, ...> and the optional property blockedUntil.                *)

undefined == [undefined |-> TRUE]

MapGet(m, k) == IF k \in DOMAIN m THEN m[k] ELSE undefined

MapSet(m, k, v) == [x \in DOMAIN m \cup {k} |-> IF x = k THEN v ELSE m[x]]

MapDeleteAll(m, k) == [x \in {} |-> undefined]

MapDelete(m, k) == [x \in DOMAIN m \ {k} |-> m[x]]

HasBlockedUntil(data) == "blockedUntil" \in DOMAIN data

SpreadRefreshingLastAttempt(data, blockedUntil) ==
    [count |-> data.count, lastAttempt |-> blockedUntil - blockDuration,
     blockedUntil |-> blockedUntil]

SpreadKeepingBlockedUntil(data, blockedUntil) ==
    [f \in DOMAIN data \cup {"blockedUntil"} |->
        IF f = "blockedUntil" /\ ~HasBlockedUntil(data) THEN blockedUntil ELSE data[f]]

\* { ...data, blockedUntil }
SpreadBlockedUntil(data, blockedUntil) ==
    [f \in DOMAIN data \cup {"blockedUntil"} |->
        IF f = "blockedUntil" THEN blockedUntil ELSE data[f]]

----------------------------------------------------------------------------
(* isBlocked, lines 55-70.  data is the value read by attempts.get; t1 and *)
(* t2 are the two readings of new Date() at lines 59 and 64.               *)

BlockActiveInclusive(data, t) == HasBlockedUntil(data) /\ t <= data.blockedUntil

BlockActive(data, t) == HasBlockedUntil(data) /\ t < data.blockedUntil

BlockPassed(data, t) == HasBlockedUntil(data) /\ t >= data.blockedUntil

isBlockedReturns(data, t1, t2) ==
    IF data = undefined THEN FALSE
    ELSE IF BlockActive(data, t1) THEN TRUE
    ELSE IF BlockPassed(data, t2) THEN FALSE
    ELSE FALSE

isBlockedDeletesNever(data, t1, t2) == FALSE

isBlockedDeletesExpiredWindow(data, t1, t2) ==
    /\ data # undefined
    /\ ~BlockActive(data, t1)
    /\ BlockPassed(data, t2) \/ t2 - data.lastAttempt > windowDuration

isBlockedDeletes(data, t1, t2) ==
    /\ data # undefined
    /\ ~BlockActive(data, t1)
    /\ BlockPassed(data, t2)

isBlockedMap(m, identifier, data, t1, t2) ==
    IF isBlockedDeletes(data, t1, t2) THEN MapDelete(m, identifier) ELSE m

----------------------------------------------------------------------------
(* recordAttempt, lines 72-97.  data is the value read at line 74 and t    *)
(* the reading of new Date() at line 73.                                   *)

NewRecordFromZero(t) == [count |-> 0, lastAttempt |-> t]

NewRecord(t) == [count |-> 1, lastAttempt |-> t]

WindowExpiredUnlessBlocked(data, t) ==
    t - data.lastAttempt > windowDuration /\ ~BlockActive(data, t)

WindowExpiredNever(data, t) == FALSE

WindowExpiredLate(data, t) == t - data.lastAttempt > windowDuration + Tick

WindowExpiredSwapped(data, t) == data.lastAttempt - t > windowDuration

WindowExpired(data, t) == t - data.lastAttempt > windowDuration

OverLimitNever(newCount) == FALSE

OverLimitOffByOne(newCount) == newCount > maxAttempts + 1

OverLimitEarly(newCount) == newCount >= maxAttempts

OverLimit(newCount) == newCount > maxAttempts

\* the record in the map when the call returns
recordAttemptStores(data, t) ==
    IF data = undefined THEN NewRecord(t)
    ELSE IF WindowExpired(data, t) THEN NewRecord(t)
    ELSE LET newCount == data.count + 1
         IN  IF OverLimit(newCount)
             THEN SpreadBlockedUntil(data, t + blockDuration)
             ELSE [count |-> newCount, lastAttempt |-> t]

recordAttemptReturns(data, t) ==
    IF data = undefined THEN [allowed |-> TRUE, remainingAttempts |-> 4]
    ELSE IF WindowExpired(data, t) THEN [allowed |-> TRUE, remainingAttempts |-> 4]
    ELSE LET newCount == data.count + 1
         IN  IF OverLimit(newCount)
             THEN [allowed |-> FALSE, remainingAttempts |-> 0,
                   blockedUntil |-> t + blockDuration]
             ELSE [allowed |-> TRUE, remainingAttempts |-> 5 - newCount]

recordAttemptMap(m, identifier, data, t) ==
    MapSet(m, identifier, recordAttemptStores(data, t))

----------------------------------------------------------------------------
(* What an observer of the calls for one identifier keeps:                 *)
(*   streak   k when the last k recordAttempt calls started from no record *)
(*            and no gap between consecutive ones exceeded windowDuration   *)
(*            (0 when that is not so, or after the sixth call);            *)
(*   lastCall the time of the last recordAttempt call of a streak;         *)
(*   denied   the blockedUntil of the last denied recordAttempt, until a   *)
(*            call is seen at or after it (0: none);                       *)
(*   expired  isBlocked has been called at or after the blockedUntil of    *)
(*            the record, and recordAttempt has not been called since.     *)

NoHist == [streak |-> 0, lastCall |-> 0, denied |-> 0, expired |-> FALSE]

HistRecordAttempt(h, data, t, returned) ==
    LET streak == IF data = undefined THEN 1
                  ELSE IF h.streak \in 1..5 /\ t - h.lastCall <= windowDuration
                       THEN h.streak + 1
                       ELSE 0
    IN  [streak   |-> streak,
         lastCall |-> IF streak = 0 THEN 0 ELSE t,
         denied   |-> IF ~returned.allowed THEN returned.blockedUntil
                      ELSE IF t >= h.denied THEN 0 ELSE h.denied,
         expired  |-> FALSE]

HistIsBlocked(h, data, t1) ==
    [h EXCEPT !.expired = h.expired \/ (data # undefined /\ BlockPassed(data, t1)),
              !.denied = IF t1 >= h.denied THEN 0 ELSE h.denied]

\* the allowed calls made less than windowDuration before the allowed call at t
WithinWindow(s, t) == SelectSeq(s, LAMBDA u : u > t - windowDuration)

AllowedAtRecordAttempt(s, t, returned) ==
    IF returned.allowed THEN Append(WithinWindow(s, t), t) ELSE s

----------------------------------------------------------------------------
(* The state machine.                                                      *)

idle == [op |-> "idle"]

RateInit ==
    /\ now = 0
    /\ attempts = [x \in {} |-> undefined]
    /\ frame = [c \in Callers |-> idle]
    /\ call = [op |-> "none"]
    /\ hist = [i \in Identifiers |-> NoHist]
    /\ allowedAt = [i \in Identifiers |-> <<>>]
    /\ serial = [x \in {} |-> undefined]

null == [null |-> TRUE]

\* the connections on which poll API requests arrive
Requests == {"r1", "r2"}

\* NewPollForm.tsx lines 58-64 (the fields the model follows); a text is the
\* sequence of its characters
defaultValues == [title |-> <<>>, options |-> << <<>>, <<>> >>]

\* no request is being handled, the table is empty, nothing is mounted
AppInit ==
    /\ mw = [pc |-> "idle"]
    /\ polls = <<>>
    /\ nextId = 0
    /\ req = [r \in Requests |-> [pc |-> "idle"]]
    /\ auth = [instance |-> 0, isMounted |-> FALSE, user |-> null, loading |-> TRUE,
               subscribed |-> FALSE, pending |-> {}, event |-> <<>>]
    /\ form = [values |-> defaultValues, serverError |-> "", submitting |-> FALSE]

Init == RateInit /\ AppInit

\* the clock moves on by one tick
AdvanceClock ==
    /\ now + Tick <= MaxTime
    /\ now' = now + Tick
    /\ UNCHANGED <<attempts, frame, call, hist, allowedAt, serial>>
    /\ UNCHANGED appVars

\* RateLimiter.isBlocked(identifier), lines 55-70, run in one piece; the clock
\* may move between the readings of lines 59 and 64
isBlocked(identifier, t2) ==
    LET data == MapGet(attempts, identifier)
    IN  /\ t2 <= MaxTime
        /\ now' = t2
        /\ attempts' = isBlockedMap(attempts, identifier, data, now, t2)

\* RateLimiter.recordAttempt(identifier), lines 72-97, run in one piece
recordAttempt(identifier) ==
    LET data == MapGet(attempts, identifier)
    IN  /\ attempts' = recordAttemptMap(attempts, identifier, data, now)
        /\ now' = now

IsBlocked(identifier) ==
    \E t2 \in {now, now + Tick} :
        LET data == MapGet(attempts, identifier)
        IN  /\ isBlocked(identifier, t2)
            /\ call' = [op |-> "isBlocked", identifier |-> identifier, at |-> now,
                        data |-> data, afterExpiry |-> FALSE,
                        returned |-> isBlockedReturns(data, now, t2)]
            /\ hist' = [hist EXCEPT ![identifier] = HistIsBlocked(@, data, now)]
            /\ UNCHANGED <<frame, allowedAt, serial>>
            /\ UNCHANGED appVars

RecordAttempt(identifier) ==
    LET data == MapGet(attempts, identifier)
        returned == recordAttemptReturns(data, now)
    IN  /\ recordAttempt(identifier)
        /\ call' = [op |-> "recordAttempt", identifier |-> identifier, at |-> now,
                    data |-> data, afterExpiry |-> hist[identifier].expired,
                    returned |-> returned]
        /\ hist' = [hist EXCEPT ![identifier] = HistRecordAttempt(@, data, now, returned)]
        /\ UNCHANGED <<frame, allowedAt, serial>>
        /\ UNCHANGED appVars

Next ==
    \/ \E identifier \in Identifiers : IsBlocked(identifier)
    \/ \E identifier \in Identifiers : RecordAttempt(identifier)
    \/ AdvanceClock

Spec == Init /\ [][Next]_vars

----------------------------------------------------------------------------
(* The same calls, observed for the times of the allowed attempts.         *)

WindowIsBlocked(identifier) ==
    \E t2 \in {now, now + Tick} :
        /\ isBlocked(identifier, t2)
        /\ UNCHANGED <<frame, call, hist, allowedAt, serial>>
        /\ UNCHANGED appVars

WindowRecordAttempt(identifier) ==
    LET returned == recordAttemptReturns(MapGet(attempts, identifier), now)
    IN  /\ recordAttempt(identifier)
        /\ allowedAt' = [allowedAt EXCEPT
                            ![identifier] = AllowedAtRecordAttempt(@, now, returned)]
        /\ UNCHANGED <<frame, call, hist, serial>>
        /\ UNCHANGED appVars

WindowNext ==
    \/ \E identifier \in Identifiers : WindowIsBlocked(identifier)
    \/ \E identifier \in Identifiers : WindowRecordAttempt(identifier)
    \/ AdvanceClock

SpecWindow == Init /\ [][WindowNext]_vars

----------------------------------------------------------------------------
(* The calls of concurrent request handlers, statement by statement.       *)
(* isBlocked and recordAttempt are synchronous methods (no await, no       *)
(* callback): a handler that has entered one runs it to its return before  *)
(* any other handler runs.  A call is split where it has read the map      *)
(* (line 56; lines 73-74) and has not yet written it.                      *)

SchedulableWhenIdle(c) == frame[c] = idle

Schedulable(c) == \A d \in Callers : frame[d] = idle

\* line 56
EnterIsBlocked(c, identifier) ==
    /\ Schedulable(c)
    /\ frame' = [frame EXCEPT ![c] = [op |-> "isBlocked", identifier |-> identifier,
                                      data |-> MapGet(attempts, identifier)]]
    /\ UNCHANGED <<now, attempts, call, hist, allowedAt, serial>>
    /\ UNCHANGED appVars

\* lines 57-69
ReturnIsBlocked(c) ==
    /\ frame[c].op = "isBlocked"
    /\ \E t2 \in {now, now + Tick} :
        LET identifier == frame[c].identifier
            data == frame[c].data
            inOrder == MapGet(serial, identifier)
        IN  /\ t2 <= MaxTime
            /\ now' = t2
            /\ attempts' = isBlockedMap(attempts, identifier, data, now, t2)
            /\ serial' = isBlockedMap(serial, identifier, inOrder, now, t2)
            /\ call' = [op |-> "isBlocked", identifier |-> identifier, caller |-> c,
                        returned |-> isBlockedReturns(data, now, t2),
                        inOrder |-> isBlockedReturns(inOrder, now, t2)]
    /\ frame' = [frame EXCEPT ![c] = idle]
    /\ UNCHANGED <<hist, allowedAt>>
    /\ UNCHANGED appVars

\* lines 73-74
EnterRecordAttempt(c, identifier) ==
    /\ Schedulable(c)
    /\ frame' = [frame EXCEPT ![c] = [op |-> "recordAttempt", identifier |-> identifier,
                                      now |-> now,
                                      data |-> MapGet(attempts, identifier)]]
    /\ UNCHANGED <<now, attempts, call, hist, allowedAt, serial>>
    /\ UNCHANGED appVars

\* lines 76-97
ReturnRecordAttempt(c) ==
    /\ frame[c].op = "recordAttempt"
    /\ LET identifier == frame[c].identifier
           data == frame[c].data
           inOrder == MapGet(serial, identifier)
       IN  /\ attempts' = recordAttemptMap(attempts, identifier, data, frame[c].now)
           /\ serial' = recordAttemptMap(serial, identifier, inOrder, frame[c].now)
           /\ call' = [op |-> "recordAttempt", identifier |-> identifier, caller |-> c,
                       returned |-> recordAttemptReturns(data, frame[c].now),
                       inOrder |-> recordAttemptReturns(inOrder, frame[c].now)]
    /\ frame' = [frame EXCEPT ![c] = idle]
    /\ UNCHANGED <<now, hist, allowedAt>>
    /\ UNCHANGED appVars

\* the clock moves on also while a call is running
StepsNext ==
    \/ \E c \in Callers, identifier \in Identifiers : EnterIsBlocked(c, identifier)
    \/ \E c \in Callers : ReturnIsBlocked(c)
    \/ \E c \in Callers, identifier \in Identifiers : EnterRecordAttempt(c, identifier)
    \/ \E c \in Callers : ReturnRecordAttempt(c)
    \/ AdvanceClock

SpecSteps == Init /\ [][StepsNext]_vars

----------------------------------------------------------------------------
(* Properties of the calls.  In each, call is the call that has just       *)
(* completed: call.data is the record it read (undefined: none), call.at   *)
(* the time it read, and attempts[call.identifier] the record it left.     *)

fresh == [allowed |-> TRUE, remainingAttempts |-> maxAttempts - 1]

\* C1: starting from no record, of six recordAttempt calls for an identifier
\* with no gap above windowDuration, calls 1 to 5 return allowed with
\* remainingAttempts 4, 3, 2, 1, 0 and no blockedUntil, and call 6 returns
\* denied, remainingAttempts 0 and blockedUntil = its time + blockDuration.
C1_BudgetExhaustion ==
    call.op = "recordAttempt" =>
        LET k == hist[call.identifier].streak
        IN  /\ k \in 1..5 =>
                call.returned = [allowed |-> TRUE, remainingAttempts |-> 5 - k]
            /\ k = 6 =>
                call.returned = [allowed |-> FALSE, remainingAttempts |-> 0,
                                 blockedUntil |-> call.at + blockDuration]

\* the sixth call of such a run, made a full windowDuration after the fifth
C1_Witness ==
    /\ call.op = "recordAttempt"
    /\ hist[call.identifier].streak = 6
    /\ call.at - call.data.lastAttempt = windowDuration

\* C2: once recordAttempt has returned denied with blockedUntil = B, every
\* isBlocked call for the identifier made before B returns true.
C2_BlockedUntilB ==
    (call.op = "isBlocked" /\ call.at < hist[call.identifier].denied)
        => call.returned = TRUE

\* C3: a recordAttempt that finds a record whose blockedUntil is later than
\* the current time returns denied.
C3_DeniedWhileBlocked ==
    (call.op = "recordAttempt" /\ call.data # undefined
        /\ HasBlockedUntil(call.data) /\ call.data.blockedUntil > call.at)
        => call.returned.allowed = FALSE

\* C4: isBlocked called at or after the blockedUntil of the record returns
\* false, and the next recordAttempt for the identifier returns allowed with
\* remainingAttempts = maxAttempts - 1 and stores count = 1.
C4_BlockExpiry ==
    /\ (call.op = "isBlocked" /\ call.data # undefined
            /\ HasBlockedUntil(call.data) /\ call.at >= call.data.blockedUntil)
        => call.returned = FALSE
    /\ (call.op = "recordAttempt" /\ call.afterExpiry)
        => /\ call.returned = fresh
           /\ attempts[call.identifier].count = 1

\* a recordAttempt made after isBlocked saw the block expired, at the very
\* time the block ended and inside the window of the last allowed attempt
C4_Witness ==
    /\ call.op = "recordAttempt"
    /\ call.afterExpiry
    /\ call.at = blockDuration

\* C5: recordAttempt on an identifier with no record stores exactly
\* { count: 1, lastAttempt: now } and returns exactly
\* { allowed: true, remainingAttempts: 4 }.
C5_FreshIdentifier ==
    (call.op = "recordAttempt" /\ call.data = undefined)
        => /\ attempts[call.identifier] = [count |-> 1, lastAttempt |-> call.at]
           /\ call.returned = [allowed |-> TRUE, remainingAttempts |-> 4]

C5_Witness ==
    /\ call.op = "recordAttempt"
    /\ call.data = undefined
    /\ call.at > 0

\* C6: a recordAttempt that finds a record with count below maxAttempts and
\* no block, more than windowDuration after its lastAttempt, stores count = 1
\* and returns allowed with remainingAttempts = maxAttempts - 1.
C6_WindowReset ==
    (call.op = "recordAttempt" /\ call.data # undefined
        /\ ~HasBlockedUntil(call.data) /\ call.data.count < maxAttempts
        /\ call.at - call.data.lastAttempt > windowDuration)
        => /\ attempts[call.identifier].count = 1
           /\ call.returned = fresh

C6_Witness ==
    /\ call.op = "recordAttempt"
    /\ call.data # undefined
    /\ ~HasBlockedUntil(call.data)
    /\ call.data.count = 3
    /\ call.at - call.data.lastAttempt = windowDuration + Tick

\* C7: a step changes the record of an identifier B (its presence, count,
\* lastAttempt or blockedUntil) only if it is a call for B.
C7_Independence ==
    [][\A B \in Identifiers :
          MapGet(attempts', B) # MapGet(attempts, B) => call'.identifier = B]_vars

\* isBlocked has just removed the expired record of one identifier while the
\* other identifier has a record
C7_Witness ==
    /\ call.op = "isBlocked"
    /\ call.data # undefined
    /\ call.identifier \notin DOMAIN attempts
    /\ DOMAIN attempts # {}

\* C8: isBlocked returns true exactly when a record exists and has a
\* blockedUntil later than the current time.
C8_IsBlockedIff ==
    call.op = "isBlocked" =>
        (call.returned = TRUE <=>
            /\ call.data # undefined
            /\ "blockedUntil" \in DOMAIN call.data
            /\ call.data.blockedUntil > call.at)

\* isBlocked called exactly at blockedUntil
C8_Witness ==
    /\ call.op = "isBlocked"
    /\ call.data # undefined
    /\ HasBlockedUntil(call.data)
    /\ call.data.blockedUntil = call.at
    /\ call.returned = FALSE

\* C9: for every identifier and every time t, at most maxAttempts of the
\* recordAttempt calls made in [t, t + windowDuration) returned allowed.
C9_AtMostFivePerWindow ==
    \A identifier \in Identifiers : \A t \in Times :
        Cardinality({i \in DOMAIN allowedAt[identifier] :
                        /\ t <= allowedAt[identifier][i]
                        /\ allowedAt[identifier][i] < t + windowDuration})
            <= maxAttempts

\* five allowed calls of a later window, spread over two ticks
C9_Witness ==
    \E identifier \in Identifiers :
        /\ Len(allowedAt[identifier]) = 5
        /\ allowedAt[identifier][1] >= windowDuration
        /\ allowedAt[identifier][5] > allowedAt[identifier][1]

\* C10: calls of concurrent handlers are atomic.  No two calls are in
\* progress at once; the record a call in progress has read is the record in
\* the map when it writes; every call returns what it returns when the calls
\* run one at a time in order of completion, and leaves the same map.
C10_Atomic ==
    /\ \A c, d \in Callers : c # d => (frame[c] = idle \/ frame[d] = idle)
    /\ \A c \in Callers :
          frame[c] # idle => frame[c].data = MapGet(attempts, frame[c].identifier)
    /\ call.op # "none" => call.returned = call.inOrder
    /\ (\A c \in Callers : frame[c] = idle) => attempts = serial

\* the second handler's recordAttempt for an identifier is in progress, the
\* clock having moved since it read it, after the first handler's sixth call
\* for the same identifier was denied
C10_Witness ==
    /\ call.op = "recordAttempt"
    /\ call.caller = "c1"
    /\ call.returned.allowed = FALSE
    /\ frame["c2"].op = "recordAttempt"
    /\ frame["c2"].identifier = call.identifier
    /\ frame["c2"].now < now

C18_ElapsedBlockIsNoRecord ==
    (call.op = "recordAttempt" /\ call.data # undefined
        /\ HasBlockedUntil(call.data) /\ call.at >= call.data.blockedUntil)
        => /\ call.returned = fresh
           /\ attempts[call.identifier].count = 1

\* C19: a denied recordAttempt leaves the record with the previous count + 1.
C19_DeniedKeepsElevatedCount ==
    (call.op = "recordAttempt" /\ call.returned.allowed = FALSE)
        => attempts[call.identifier].count = call.data.count + 1

\* C20: a recordAttempt that finds a record whose blockedUntil is in the
\* future, within windowDuration of its lastAttempt, returns denied and
\* replaces blockedUntil by now + blockDuration, which is not earlier than
\* the blockedUntil it replaces.
C20_LockoutExtended ==
    (call.op = "recordAttempt" /\ call.data # undefined
        /\ HasBlockedUntil(call.data) /\ call.data.blockedUntil > call.at
        /\ call.at - call.data.lastAttempt <= windowDuration)
        => /\ call.returned.allowed = FALSE
           /\ call.returned.blockedUntil = call.at + blockDuration
           /\ attempts[call.identifier].blockedUntil = call.at + blockDuration
           /\ attempts[call.identifier].blockedUntil >= call.data.blockedUntil

\* a denied call during an active block that moves blockedUntil forward
C20_Witness ==
    /\ call.op = "recordAttempt"
    /\ call.data # undefined
    /\ HasBlockedUntil(call.data)
    /\ call.data.blockedUntil > call.at
    /\ call.returned.allowed = FALSE
    /\ attempts[call.identifier].blockedUntil > call.data.blockedUntil

\* C21: every stored record with a blockedUntil has
\* blockedUntil <= lastAttempt + windowDuration + blockDuration.
C21_LockoutBounded ==
    \A identifier \in DOMAIN attempts :
        HasBlockedUntil(attempts[identifier]) =>
            attempts[identifier].blockedUntil
                <= attempts[identifier].lastAttempt + windowDuration + blockDuration

\* a lockout that was pushed to the bound by an attempt made windowDuration
\* after the last allowed one
C21_Witness ==
    /\ call.op = "recordAttempt"
    /\ ~call.returned.allowed
    /\ HasBlockedUntil(call.data)
    /\ attempts[call.identifier].blockedUntil
           = attempts[call.identifier].lastAttempt + windowDuration + blockDuration

\* C22: isBlocked removes the identifier's record exactly when the record has
\* a blockedUntil at or before the time of the call, and otherwise leaves the
\* record as it found it (no record stays no record); a step changes the
\* record of an identifier only if it is a call for that identifier, a record
\* disappears only in an isBlocked, and an isBlocked changes the map in no
\* other way.
C22_IsBlockedFrame ==
    /\ [](call.op = "isBlocked" =>
            IF call.data # undefined /\ HasBlockedUntil(call.data)
                   /\ call.data.blockedUntil <= call.at
            THEN call.identifier \notin DOMAIN attempts
            ELSE MapGet(attempts, call.identifier) = call.data)
    /\ [][ \A identifier \in Identifiers :
              MapGet(attempts', identifier) # MapGet(attempts, identifier) =>
                  /\ call'.identifier = identifier
                  /\ call'.at = now
                  /\ identifier \notin DOMAIN attempts' <=> call'.op = "isBlocked"
         ]_vars

\* an isBlocked found a record whose window expired long ago but which has no
\* blockedUntil, and left it stored
C22_Witness ==
    /\ call.op = "isBlocked"
    /\ call.data # undefined
    /\ ~HasBlockedUntil(call.data)
    /\ call.at - call.data.lastAttempt > windowDuration
    /\ call.identifier \in DOMAIN attempts

\* C23: every stored record has 1 <= count <= maxAttempts.
C23_CountRange ==
    \A identifier \in DOMAIN attempts :
        /\ attempts[identifier].count >= 1
        /\ attempts[identifier].count <= maxAttempts

\* a denied call has just stored its record
C23_Witness ==
    /\ call.op = "recordAttempt"
    /\ ~call.returned.allowed
    /\ attempts[call.identifier].count = maxAttempts

----------------------------------------------------------------------------
(* The same calls over unbounded time.  The clock reads 0 at every call    *)
(* and a record's dates are kept relative to it: when a Tick passes, every *)
(* stored date moves back by one Tick.  A lastAttempt more than            *)
(* windowDuration ago and a blockedUntil that has passed are not moved     *)
(* further, since the code only compares them with the clock.              *)

Max(x, y) == IF x >= y THEN x ELSE y

Elapsed(data) ==
    IF HasBlockedUntil(data)
    THEN [count |-> data.count,
          lastAttempt |-> Max(data.lastAttempt - Tick, 0 - (windowDuration + Tick)),
          blockedUntil |-> Max(data.blockedUntil - Tick, 0)]
    ELSE [count |-> data.count,
          lastAttempt |-> Max(data.lastAttempt - Tick, 0 - (windowDuration + Tick))]

\* a Tick passes
Elapse ==
    /\ attempts' = [identifier \in DOMAIN attempts |-> Elapsed(attempts[identifier])]
    /\ UNCHANGED <<now, frame, call, hist, allowedAt, serial>>
    /\ UNCHANGED appVars

LiveIsBlocked(identifier) ==
    LET data == MapGet(attempts, identifier)
    IN  /\ isBlocked(identifier, now)
        /\ call' = [op |-> "isBlocked", identifier |-> identifier,
                    returned |-> isBlockedReturns(data, now, now)]
        /\ UNCHANGED <<frame, hist, allowedAt, serial>>
        /\ UNCHANGED appVars

LiveRecordAttempt(identifier) ==
    LET data == MapGet(attempts, identifier)
    IN  /\ recordAttempt(identifier)
        /\ call' = [op |-> "recordAttempt", identifier |-> identifier,
                    blocked |-> data # undefined /\ HasBlockedUntil(data),
                    returned |-> recordAttemptReturns(data, now).allowed]
        /\ UNCHANGED <<frame, hist, allowedAt, serial>>
        /\ UNCHANGED appVars

LiveNext ==
    \/ \E identifier \in Identifiers : LiveIsBlocked(identifier)
    \/ \E identifier \in Identifiers : LiveRecordAttempt(identifier)
    \/ Elapse

\* time keeps advancing and recordAttempt keeps being called for every identifier
SpecLive ==
    /\ Init
    /\ [][LiveNext]_vars
    /\ WF_vars(Elapse)
    /\ \A identifier \in Identifiers : WF_vars(LiveRecordAttempt(identifier))

\* C25: if time keeps advancing and recordAttempt keeps being called for an
\* identifier, calls for that identifier return allowed again and again.
C25_AllowedInfinitelyOften ==
    \A identifier \in Identifiers :
        []<>( /\ call.op = "recordAttempt"
              /\ call.identifier = identifier
              /\ call.returned )

\* a call on a record that had been blocked was allowed: the blocked state
\* has been left
C25_Witness ==
    /\ call.op = "recordAttempt"
    /\ call.blocked
    /\ call.returned

----------------------------------------------------------------------------
(* Request handlers that follow the calling convention: a handler calls    *)
(* isBlocked; if it returns true the request is rejected; if false the     *)
(* handler performs the operation (other handlers run meanwhile) and then  *)
(* calls recordAttempt once.  Each of the two calls runs in one piece.     *)

\* the handler checks; on false it goes on to perform the operation
ConventionIsBlocked(c, identifier) ==
    /\ frame[c] = idle
    /\ \E t2 \in {now, now + Tick} :
          LET data == MapGet(attempts, identifier)
              returned == isBlockedReturns(data, now, t2)
          IN  /\ isBlocked(identifier, t2)
              /\ call' = [op |-> "isBlocked", identifier |-> identifier, at |-> now,
                          data |-> data, returned |-> returned]
              /\ frame' = [frame EXCEPT ![c] =
                              IF returned THEN idle
                              ELSE [op |-> "attempt", identifier |-> identifier]]
    /\ UNCHANGED <<hist, allowedAt, serial>>
    /\ UNCHANGED appVars

\* the operation is over: the handler records the attempt
ConventionRecordAttempt(c) ==
    /\ frame[c] # idle
    /\ frame[c].op = "attempt"
    /\ LET identifier == frame[c].identifier
           data == MapGet(attempts, identifier)
       IN  /\ recordAttempt(identifier)
           /\ call' = [op |-> "recordAttempt", identifier |-> identifier, at |-> now,
                       data |-> data, returned |-> recordAttemptReturns(data, now)]
    /\ frame' = [frame EXCEPT ![c] = idle]
    /\ UNCHANGED <<hist, allowedAt, serial>>
    /\ UNCHANGED appVars

ConventionNext ==
    \/ \E c \in Callers, identifier \in Identifiers : ConventionIsBlocked(c, identifier)
    \/ \E c \in Callers : ConventionRecordAttempt(c)
    \/ AdvanceClock

SpecConvention == Init /\ [][ConventionNext]_vars

\* C26: when every handler follows the calling convention, recordAttempt is
\* never executed on a record whose blockedUntil is in the future, and a
\* blockedUntil that is in the future is not changed by any step.
C26_ConventionProtectsBlock ==
    /\ [](call.op = "recordAttempt" =>
            ~(call.data # undefined /\ HasBlockedUntil(call.data)
                  /\ call.data.blockedUntil > call.at))
    /\ [][ \A identifier \in DOMAIN attempts :
              ( /\ HasBlockedUntil(attempts[identifier])
                /\ attempts[identifier].blockedUntil > now ) =>
                  /\ identifier \in DOMAIN attempts'
                  /\ HasBlockedUntil(attempts'[identifier])
                  /\ attempts'[identifier].blockedUntil = attempts[identifier].blockedUntil
         ]_vars

----------------------------------------------------------------------------
(* middleware (src/middleware.ts, lines 26-107).  A pathname is the        *)
(* sequence of its characters.  The request carries the cookies from which *)
(* supabase.auth.getSession() reads the session: null, or a session with   *)
(* its user.                                                               *)

Users == {"u1", "u2"}

Sessions == {[user |-> [id |-> u]] : u \in Users}

Pathnames ==
    {
      <<"/">>,  \* /
      <<"/", "d", "a", "s", "h", "b", "o", "a", "r", "d">>,  \* /dashboard
      <<"/", "d", "a", "s", "h", "b", "o", "a", "r", "d", "/", "s", "e", "t", "t", "i", "n", "g", "s">>,  \* /dashboard/settings
      <<"/", "d", "a", "s", "h", "b", "o", "a", "r", "d", "s">>,  \* /dashboards
      <<"/", "d", "a", "s", "h">>,  \* /dash
      <<"/", "p", "o", "l", "l", "s">>,  \* /polls
      <<"/", "p", "o", "l", "l", "s", "/", "n", "e", "w">>,  \* /polls/new
      <<"/", "p", "o", "l", "l", "s", "/", "1">>,  \* /polls/1
      <<"/", "p", "o", "l", "l", "s", "t", "e", "r", "s">>,  \* /pollsters
      <<"/", "p", "o", "l", "l">>,  \* /poll
      <<"/", "a", "u", "t", "h">>,  \* /auth
      <<"/", "a", "u", "t", "h", "/", "l", "o", "g", "i", "n">>,  \* /auth/login
      <<"/", "a", "u", "t", "h", "/", "l", "o", "g", "i", "n", "/", "r", "e", "s", "e", "t">>,  \* /auth/login/reset
      <<"/", "a", "u", "t", "h", "/", "l", "o", "g", "i", "n", "x">>,  \* /auth/loginx
      <<"/", "a", "u", "t", "h", "/", "r", "e", "g", "i", "s", "t", "e", "r">>,  \* /auth/register
      <<"/", "a", "u", "t", "h", "/", "r", "e", "g", "i", "s", "t", "e", "r", "/", "d", "o", "n", "e">>,  \* /auth/register/done
      <<"/", "a", "u", "t", "h", "/", "c", "a", "l", "l", "b", "a", "c", "k">>,  \* /auth/callback
      <<"/", "a", "u", "t", "h", "/", "l", "o", "g", "o", "u", "t">>,  \* /auth/logout
      <<"/", "a", "p", "i", "/", "p", "o", "l", "l", "s">>,  \* /api/polls
      <<"/", "a", "p", "i", "/", "p", "o", "l", "l", "s", "/", "1">>,  \* /api/polls/1
      <<"/", "a", "b", "o", "u", "t">>,  \* /about
      <<"/", "x", "/", "d", "a", "s", "h", "b", "o", "a", "r", "d">>,  \* /x/dashboard
      <<"/", "x", "/", "a", "u", "t", "h", "/", "l", "o", "g", "i", "n">>   \* /x/auth/login
    }

startsWithWhole(string, searchString) == string = searchString

\* String.prototype.startsWith
startsWith(string, searchString) ==
    /\ Len(searchString) <= Len(string)
    /\ SubSeq(string, 1, Len(searchString)) = searchString

protectedRoutesWithAuth ==
    << <<"/", "d", "a", "s", "h", "b", "o", "a", "r", "d">>,
       <<"/", "p", "o", "l", "l", "s">>,
       <<"/", "a", "u", "t", "h">> >>

\* lines 82 and 88
protectedRoutes == << <<"/", "d", "a", "s", "h", "b", "o", "a", "r", "d">>,
                      <<"/", "p", "o", "l", "l", "s">> >>

authRoutes == << <<"/", "a", "u", "t", "h", "/", "l", "o", "g", "i", "n">>,
                 <<"/", "a", "u", "t", "h", "/", "r", "e", "g", "i", "s", "t", "e", "r">> >>

\* Array.prototype.some
isProtectedRoute(pathname) ==
    \E i \in DOMAIN protectedRoutes : startsWith(pathname, protectedRoutes[i])

isAuthRoute(pathname) ==
    \E i \in DOMAIN authRoutes : startsWith(pathname, authRoutes[i])

\* lines 93-106: the response
middlewareReturns(pathname, session) ==
    IF isProtectedRoute(pathname) /\ session = null
    THEN [type |-> "redirect", pathname |-> <<"/", "a", "u", "t", "h", "/", "l", "o", "g", "i", "n">>,
          searchParams |-> [redirectTo |-> pathname]]
    ELSE IF isAuthRoute(pathname) /\ session # null
         THEN [type |-> "redirect", pathname |-> <<"/", "d", "a", "s", "h", "b", "o", "a", "r", "d">>,
               searchParams |-> <<>>]
         ELSE [type |-> "next"]

\* a request arrives: lines 26-79, up to the await of getSession
MiddlewareRequest(pathname, session) ==
    /\ mw.pc \in {"idle", "responded"}
    /\ mw' = [pc |-> "getSession", pathname |-> pathname, searchParams |-> <<>>,
              session |-> session, redirects |-> 0]
    /\ UNCHANGED <<rateVars, pollVars, clientVars>>

\* getSession has returned: lines 77-106
MiddlewareResponds ==
    /\ mw.pc = "getSession"
    /\ mw' = [mw EXCEPT !.pc = "responded"] @@
             [response |-> middlewareReturns(mw.pathname, mw.session)]
    /\ UNCHANGED <<rateVars, pollVars, clientVars>>

\* the browser follows the redirect, with the same cookies
FollowRedirect ==
    /\ mw.pc = "responded"
    /\ mw.response.type = "redirect"
    /\ mw' = [pc |-> "getSession", pathname |-> mw.response.pathname,
              searchParams |-> mw.response.searchParams,
              session |-> mw.session, redirects |-> mw.redirects + 1]
    /\ UNCHANGED <<rateVars, pollVars, clientVars>>

MiddlewareNext ==
    \/ \E pathname \in Pathnames, session \in Sessions \cup {null} :
          MiddlewareRequest(pathname, session)
    \/ MiddlewareResponds
    \/ FollowRedirect

SpecMiddleware == Init /\ [][MiddlewareNext]_vars

\* p begins with the characters of q
BeginsWith(p, q) == Len(q) <= Len(p) /\ \A i \in 1..Len(q) : p[i] = q[i]

\* C11: the middleware redirects to /auth/login with redirectTo = pathname
\* exactly when the pathname starts with /dashboard or /polls and there is no
\* session; otherwise it redirects to /dashboard exactly when the pathname
\* starts with /auth/login or /auth/register and there is a session; in every
\* other case it passes the request through.
C11_MiddlewareResponse ==
    mw.pc = "responded" =>
        LET onProtected == \/ BeginsWith(mw.pathname, <<"/", "d", "a", "s", "h", "b", "o", "a", "r", "d">>)
                         \/ BeginsWith(mw.pathname, <<"/", "p", "o", "l", "l", "s">>)
            onAuth == \/ BeginsWith(mw.pathname, <<"/", "a", "u", "t", "h", "/", "l", "o", "g", "i", "n">>)
                    \/ BeginsWith(mw.pathname, <<"/", "a", "u", "t", "h", "/", "r", "e", "g", "i", "s", "t", "e", "r">>)
            toLogin == /\ mw.response.type = "redirect"
                       /\ mw.response.pathname = <<"/", "a", "u", "t", "h", "/", "l", "o", "g", "i", "n">>
                       /\ mw.response.searchParams = [redirectTo |-> mw.pathname]
            toDashboard == /\ mw.response.type = "redirect"
                           /\ mw.response.pathname = <<"/", "d", "a", "s", "h", "b", "o", "a", "r", "d">>
        IN  /\ toLogin <=> (onProtected /\ mw.session = null)
            /\ toDashboard <=> (~toLogin /\ onAuth /\ mw.session # null)
            /\ (~toLogin /\ ~toDashboard) => mw.response = [type |-> "next"]

\* a request for a path below /polls without a session, redirected to login
C11_Witness ==
    /\ mw.pc = "responded"
    /\ mw.pathname = <<"/", "p", "o", "l", "l", "s", "/", "n", "e", "w">>
    /\ mw.session = null
    /\ mw.response.type = "redirect"
    /\ mw.response.searchParams = [redirectTo |-> <<"/", "p", "o", "l", "l", "s", "/", "n", "e", "w">>]

----------------------------------------------------------------------------
(* The poll API: GET and POST of src/src/app/api/polls/route.ts and GET    *)
(* and DELETE of src/src/app/api/polls/[id]/route.ts.  A handler runs from *)
(* one await to the next in one piece; handlers of different connections   *)
(* interleave at their awaits.  The polls table gives every inserted row a *)
(* fresh id (id UUID DEFAULT gen_random_uuid() PRIMARY KEY); a row is      *)
(* modelled by its user_id, the only column a handler decides on.          *)

MaxPolls == 2

\* the n-th id the table generates; an id is a string, the sequence of its characters
uuid(n) == <<n>>

PollIds == {uuid(n) : n \in 1..MaxPolls}

\* what getSession gives a handler: { data: { session }, error }
AuthError == [message |-> "invalid session"]

AuthResults ==
    {[session |-> session, error |-> null] : session \in Sessions \cup {null}}
        \cup {[session |-> null, error |-> AuthError]}

\* request.json(): an object the schema accepts, one it rejects, or no JSON at all
Bodies == {"valid", "invalid", "malformed"}

Handlers == {"GET", "POST", "GET_id", "DELETE"}

UnauthorizedNoError(authError, session) == authError # null

\* if (authError || !session)
Unauthorized(authError, session) == authError # null \/ session = null

\* if (!pollId || typeof pollId !== 'string')
InvalidPollId(pollId) == pollId = <<>>

OwnsAny(poll, session) == TRUE

\* the negation of poll.user_id !== session.user.id
Owns(poll, session) == poll.user_id = session.user.id

\* return NextResponse.json(..., { status })
Respond(request, status) == [request EXCEPT !.pc = "done", !.status = status]

\* a request arrives and its handler runs up to await supabase.auth.getSession()
Receive(r, handler) ==
    /\ req[r].pc \in {"idle", "done"}
    /\ req' = [req EXCEPT ![r] =
                  [pc |-> "getSession", handler |-> handler, auth |-> <<>>,
                   pollId |-> <<>>, status |-> 0, validated |-> FALSE, dbCalls |-> 0]]
    /\ UNCHANGED <<polls, nextId>>
    /\ UNCHANGED <<rateVars, mwVars, clientVars>>

\* getSession has returned: the 401, or on to the next await
GetSessionReturns(r, result) ==
    /\ req[r].pc = "getSession"
    /\ req' = [req EXCEPT ![r] =
                  LET request == [req[r] EXCEPT !.auth = result]
                  IN  IF Unauthorized(result.error, result.session)
                      THEN Respond(request, 401)
                      ELSE [request EXCEPT
                                !.pc = CASE request.handler = "GET" -> "select"
                                         [] request.handler = "POST" -> "json"
                                         [] OTHER -> "params"]]
    /\ UNCHANGED <<polls, nextId>>
    /\ UNCHANGED <<rateVars, mwVars, clientVars>>

\* GET /api/polls: the select has returned (route.ts lines 104-119)
SelectPolls(r, dbError) ==
    /\ req[r].pc = "select"
    /\ req' = [req EXCEPT ![r] =
                  Respond([req[r] EXCEPT !.dbCalls = @ + 1],
                          IF dbError THEN 500 ELSE 200)]
    /\ UNCHANGED <<polls, nextId>>
    /\ UNCHANGED <<rateVars, mwVars, clientVars>>

\* POST /api/polls: request.json() has returned or thrown (route.ts lines 187-208)
RequestJson(r, body) ==
    /\ req[r].pc = "json"
    /\ req' = [req EXCEPT ![r] =
                  CASE body = "malformed" -> Respond(req[r], 500)
                    [] body = "invalid" ->
                           Respond([req[r] EXCEPT !.validated = TRUE], 400)
                    [] OTHER -> [req[r] EXCEPT !.validated = TRUE, !.pc = "insert"]]
    /\ UNCHANGED <<polls, nextId>>
    /\ UNCHANGED <<rateVars, mwVars, clientVars>>

\* POST /api/polls: the insert has returned (route.ts lines 203-226)
InsertPoll(r, dbError) ==
    /\ req[r].pc = "insert"
    /\ dbError \/ nextId < MaxPolls
    /\ IF dbError
       THEN /\ req' = [req EXCEPT ![r] = Respond([req[r] EXCEPT !.dbCalls = @ + 1], 500)]
            /\ UNCHANGED <<polls, nextId>>
       ELSE /\ nextId' = nextId + 1
            /\ polls' = MapSet(polls, uuid(nextId + 1),
                               [user_id |-> req[r].auth.session.user.id])
            /\ req' = [req EXCEPT ![r] = Respond([req[r] EXCEPT !.dbCalls = @ + 1], 201)]
    /\ UNCHANGED <<rateVars, mwVars, clientVars>>

\* [id]/route.ts lines 90-98 and 182-190: params has resolved
AwaitParams(r, pollId) ==
    /\ req[r].pc = "params"
    /\ req' = [req EXCEPT ![r] =
                  IF InvalidPollId(pollId)
                  THEN Respond([req[r] EXCEPT !.validated = TRUE], 400)
                  ELSE [req[r] EXCEPT !.validated = TRUE, !.pollId = pollId,
                                      !.pc = "single"]]
    /\ UNCHANGED <<polls, nextId>>
    /\ UNCHANGED <<rateVars, mwVars, clientVars>>

\* the select of one row has returned: [id]/route.ts lines 101-122 (GET)
\* and lines 193-219 (DELETE)
SelectPoll(r, dbError) ==
    /\ req[r].pc = "single"
    /\ req' = [req EXCEPT ![r] =
                  LET request == [req[r] EXCEPT !.dbCalls = @ + 1]
                  IN  CASE dbError -> Respond(request, 500)
                        [] request.pollId \notin DOMAIN polls -> Respond(request, 404)
                        [] request.handler = "GET_id" -> Respond(request, 200)
                        [] ~Owns(polls[request.pollId], request.auth.session) ->
                               Respond(request, 403)
                        [] OTHER -> [request EXCEPT !.pc = "delete"]]
    /\ UNCHANGED <<polls, nextId>>
    /\ UNCHANGED <<rateVars, mwVars, clientVars>>

\* DELETE: the delete has returned ([id]/route.ts lines 222-235)
DeletePoll(r, dbError) ==
    /\ req[r].pc = "delete"
    /\ polls' = IF dbError THEN polls ELSE MapDelete(polls, req[r].pollId)
    /\ req' = [req EXCEPT ![r] =
                  Respond([req[r] EXCEPT !.dbCalls = @ + 1],
                          IF dbError THEN 500 ELSE 200)]
    /\ UNCHANGED nextId
    /\ UNCHANGED <<rateVars, mwVars, clientVars>>

PollsNext ==
    \/ \E r \in Requests, handler \in Handlers : Receive(r, handler)
    \/ \E r \in Requests, result \in AuthResults : GetSessionReturns(r, result)
    \/ \E r \in Requests, dbError \in BOOLEAN : SelectPolls(r, dbError)
    \/ \E r \in Requests, body \in Bodies : RequestJson(r, body)
    \/ \E r \in Requests, dbError \in BOOLEAN : InsertPoll(r, dbError)
    \/ \E r \in Requests, pollId \in PollIds \cup {<<>>} : AwaitParams(r, pollId)
    \/ \E r \in Requests, dbError \in BOOLEAN : SelectPoll(r, dbError)
    \/ \E r \in Requests, dbError \in BOOLEAN : DeletePoll(r, dbError)

SpecPolls == Init /\ [][PollsNext]_vars

\* C12: every poll API handler answers 401, without a database call and
\* without validating the body or the poll id, when getSession yields an error
\* or no session; no validation and no database call happens before the
\* authentication check.
C12_UnauthorizedFirst ==
    \A r \in Requests :
        /\ req[r].pc = "getSession" => (req[r].dbCalls = 0 /\ ~req[r].validated)
        /\ ( /\ req[r].pc \notin {"idle", "getSession"}
             /\ (req[r].auth.error # null \/ req[r].auth.session = null) ) =>
               /\ req[r].pc = "done"
               /\ req[r].status = 401
               /\ req[r].dbCalls = 0
               /\ ~req[r].validated

\* a DELETE whose session retrieval failed has been answered, and the polls
\* that were stored still are
C12_Witness ==
    \E r \in Requests :
        /\ req[r].pc = "done"
        /\ req[r].handler = "DELETE"
        /\ req[r].auth.error # null
        /\ req[r].status = 401
        /\ polls # <<>>

----------------------------------------------------------------------------
(* The client: AuthProvider (src/src/contexts/AuthContext.tsx) and, inside *)
(* it, NewPollForm (src/src/app/polls/NewPollForm.tsx).  Every mount of    *)
(* the provider is a new instance with its own effect closure; the form is *)
(* rendered inside the provider and is mounted and unmounted with it.      *)

MaxMounts == 2

MaxFields == 4

sessionUserNull(session) == null

\* session?.user ?? null
sessionUser(session) == IF session = null THEN null ELSE session.user

\* what getSession gives the provider: a result, or a rejected promise
ClientAuthResults == AuthResults \cup {[thrown |-> TRUE]}

initialForm == [values |-> defaultValues, serverError |-> "", submitting |-> FALSE]

\* the provider mounts: useState initial values, then the effect (lines 47-48, 68-117)
Mount ==
    /\ ~auth.isMounted
    /\ auth.instance < MaxMounts
    /\ auth' = [instance |-> auth.instance + 1, isMounted |-> TRUE,
                user |-> null, loading |-> TRUE, subscribed |-> TRUE,
                pending |-> auth.pending \cup {auth.instance + 1}, event |-> <<>>]
    /\ form' = initialForm
    /\ UNCHANGED <<rateVars, mwVars, pollVars>>

\* the effect's cleanup (lines 120-123); a callback already under way still runs
Unmount ==
    /\ auth.isMounted
    /\ auth' = [auth EXCEPT !.isMounted = FALSE, !.subscribed = FALSE]
    /\ UNCHANGED form
    /\ UNCHANGED <<rateVars, mwVars, pollVars>>

isMountedAlways(i) == TRUE

\* the isMounted of the effect closure of instance i (lines 69, 121)
isMounted(i) == i = auth.instance /\ auth.isMounted

\* initializeAuth of instance i resumes after await getSession (lines 78-100)
GetSessionResolves(i, result) ==
    /\ i \in auth.pending
    /\ auth' = IF isMounted(i)
               THEN [auth EXCEPT !.pending = @ \ {i},
                                 !.user = IF "thrown" \in DOMAIN result \/ result.error # null
                                          THEN null
                                          ELSE sessionUser(result.session),
                                 !.loading = FALSE]
               ELSE [auth EXCEPT !.pending = @ \ {i}]
    /\ UNCHANGED form
    /\ UNCHANGED <<rateVars, mwVars, pollVars>>

\* supabase emits an auth state change to the subscription
EmitAuthStateChange(session) ==
    /\ auth.subscribed
    /\ auth.event = <<>>
    /\ auth' = [auth EXCEPT !.event = <<session>>]
    /\ UNCHANGED form
    /\ UNCHANGED <<rateVars, mwVars, pollVars>>

\* the onAuthStateChange callback runs (lines 111-116)
OnAuthStateChange ==
    /\ auth.event # <<>>
    /\ auth' = IF isMounted(auth.instance)
               THEN [auth EXCEPT !.user = sessionUser(auth.event[1]),
                                 !.loading = FALSE, !.event = <<>>]
               ELSE [auth EXCEPT !.event = <<>>]
    /\ UNCHANGED form
    /\ UNCHANGED <<rateVars, mwVars, pollVars>>

Titles == {<<>>, <<"a", "b">>, <<"a", "b", "c">>}

OptionTexts == {<<>>, <<"x">>}

\* newPollSchema (schemas.ts lines 18-54), on the fields the model follows
newPollSchema(values) ==
    /\ Len(values.title) >= 3 /\ Len(values.title) <= 120
    /\ \A i \in DOMAIN values.options : Len(values.options[i]) >= 1
    /\ Len(values.options) >= 2
    /\ Len(values.options) <= 10

\* the user types in the title field
ChangeTitle(title) ==
    /\ auth.isMounted
    /\ form' = [form EXCEPT !.values.title = title]
    /\ UNCHANGED auth
    /\ UNCHANGED <<rateVars, mwVars, pollVars>>

\* the user types in option field i
ChangeOption(i, text) ==
    /\ auth.isMounted
    /\ i \in DOMAIN form.values.options
    /\ form' = [form EXCEPT !.values.options[i] = text]
    /\ UNCHANGED auth
    /\ UNCHANGED <<rateVars, mwVars, pollVars>>

\* "Add option": append("") (line 203)
AddOption ==
    /\ auth.isMounted
    /\ Len(form.values.options) < MaxFields
    /\ form' = [form EXCEPT !.values.options = Append(@, <<>>)]
    /\ UNCHANGED auth
    /\ UNCHANGED <<rateVars, mwVars, pollVars>>

CanRemoveAny(length) == length > 0

\* fields.length > 2
CanRemove(length) == length > 2

\* "Remove last": fields.length > 2 && remove(fields.length - 1) (line 204)
RemoveLast ==
    /\ auth.isMounted
    /\ form' = IF CanRemove(Len(form.values.options))
               THEN [form EXCEPT !.values.options = SubSeq(@, 1, Len(@) - 1)]
               ELSE form
    /\ UNCHANGED auth
    /\ UNCHANGED <<rateVars, mwVars, pollVars>>

\* form.handleSubmit(onSubmit) with values the resolver accepts: onSubmit up
\* to await fetch (lines 107-126)
Submit ==
    /\ auth.isMounted
    /\ ~form.submitting
    /\ newPollSchema(form.values)
    /\ form' = IF auth.user = null
               THEN [form EXCEPT !.serverError = "You must be signed in to create a poll."]
               ELSE [form EXCEPT !.serverError = "", !.submitting = TRUE]
    /\ UNCHANGED auth
    /\ UNCHANGED <<rateVars, mwVars, pollVars>>

\* onSubmit resumes after await fetch (lines 129-143)
FetchResponds(ok) ==
    /\ auth.isMounted
    /\ form.submitting
    /\ form' = IF ok
               THEN [form EXCEPT !.values = defaultValues, !.submitting = FALSE]
               ELSE [form EXCEPT !.serverError = "Failed to create poll",
                                 !.submitting = FALSE]
    /\ UNCHANGED auth
    /\ UNCHANGED <<rateVars, mwVars, pollVars>>

ClientNext ==
    \/ Mount
    \/ Unmount
    \/ \E i \in 1..MaxMounts, result \in ClientAuthResults : GetSessionResolves(i, result)
    \/ \E session \in Sessions \cup {null} : EmitAuthStateChange(session)
    \/ OnAuthStateChange
    \/ \E title \in Titles : ChangeTitle(title)
    \/ \E i \in 1..MaxFields, text \in OptionTexts : ChangeOption(i, text)
    \/ AddOption
    \/ RemoveLast
    \/ Submit
    \/ \E ok \in BOOLEAN : FetchResponds(ok)

SpecClient == Init /\ [][ClientNext]_vars

\* the number of option fields
FieldCount == Len(form.values.options)

\* C14: the form never has fewer than 2 option fields; while one form is
\* mounted and no submission completes, a step that raises the number of
\* fields appends exactly one empty field, a step that lowers it removes
\* exactly the last field and only when more than 2 exist.
C14_AtLeastTwoOptions ==
    /\ [](FieldCount >= 2)
    /\ [][ (auth'.instance = auth.instance /\ form'.submitting = form.submitting) =>
              /\ FieldCount' > FieldCount =>
                     form'.values.options = form.values.options \o << <<>> >>
              /\ FieldCount' < FieldCount =>
                     /\ FieldCount > 2
                     /\ FieldCount' = FieldCount - 1
                     /\ \A i \in 1..FieldCount' :
                            form'.values.options[i] = form.values.options[i]
         ]_vars

\* a third field was added after the first two had been filled in
C14_Witness ==
    /\ auth.isMounted
    /\ FieldCount = 3
    /\ form.values.options = << <<"x">>, <<"x">>, <<>> >>

\* C15: once a failed submission has put a server error on the form, a step
\* in which the user edits a field, with no new submission, leaves no server
\* error shown.
C15_ErrorClearedOnEdit ==
    [][ ( /\ auth'.instance = auth.instance
          /\ form.serverError # ""
          /\ ~form.submitting /\ ~form'.submitting
          /\ form'.values # form.values
          /\ FieldCount' = FieldCount ) =>
            form'.serverError = ""
      ]_vars

\* C16: a mount starts with loading true; while the provider stays mounted,
\* loading goes from true to false only in a step that applies a getSession
\* result or delivers an auth event; and the delivery of an event carrying
\* session s leaves user = s.user (null for no session) and loading false.
C16_LoadingUntilAppliedThenUser ==
    [][ /\ auth'.instance # auth.instance => (auth'.loading /\ auth'.user = null)
        /\ (auth.isMounted /\ auth'.isMounted) =>
              /\ (auth.loading /\ ~auth'.loading) =>
                     \/ (auth.event # <<>> /\ auth'.event = <<>>)
                     \/ auth.instance \in auth.pending \ auth'.pending
              /\ (auth.event # <<>> /\ auth'.event = <<>>) =>
                     /\ auth'.user = IF auth.event[1] = null THEN null
                                     ELSE auth.event[1].user
                     /\ ~auth'.loading
      ]_vars

\* a sign-in event has been applied while getSession is still pending
C16_Witness ==
    /\ auth.isMounted
    /\ auth.instance \in auth.pending
    /\ ~auth.loading
    /\ auth.user = [id |-> "u1"]
    /\ auth.event = <<>>

----------------------------------------------------------------------------
(* The option fields alone, with room for more of them than the schema     *)
(* accepts: the fields stay empty, so only their number changes.           *)

\* .max(10, 'Maximum of 10 options allowed')
maxOptions == 10

MaxAdded == 12

\* "Add option": append("") (line 203)
AddField ==
    /\ auth.isMounted
    /\ Len(form.values.options) < MaxAdded
    /\ form' = [form EXCEPT !.values.options = Append(@, <<>>)]
    /\ UNCHANGED auth
    /\ UNCHANGED <<rateVars, mwVars, pollVars>>

FieldsNext ==
    \/ Mount
    \/ Unmount
    \/ \E i \in 1..MaxMounts, result \in ClientAuthResults : GetSessionResolves(i, result)
    \/ \E session \in Sessions \cup {null} : EmitAuthStateChange(session)
    \/ OnAuthStateChange
    \/ AddField
    \/ RemoveLast

SpecFields == Init /\ [][FieldsNext]_vars

\* C27: after any sequence of "Add option" and "Remove last" the form has at
\* most 10 option fields.
C27_AtMostTenOptions == FieldCount <= maxOptions

\* C28: once the provider has unmounted, no step changes user or loading,
\* and the subscription is gone; the completion of a getSession call started
\* by an instance that has unmounted changes neither, also after a remount.
C28_NoUpdateAfterUnmount ==
    /\ [](~auth.isMounted => ~auth.subscribed)
    /\ [][ /\ (~auth.isMounted /\ ~auth'.isMounted) =>
                  (auth'.user = auth.user /\ auth'.loading = auth.loading)
           /\ \A i \in auth.pending \ auth'.pending :
                  (i # auth.instance \/ ~auth.isMounted) =>
                      (auth'.user = auth.user /\ auth'.loading = auth.loading)
         ]_vars

\* the only getSession call completed after the unmount, and loading is
\* still what it was at mount
C28_Witness ==
    /\ auth.instance = 1
    /\ ~auth.isMounted
    /\ auth.pending = {}
    /\ auth.loading

\* C29: once an auth event has been applied (loading is false while the
\* instance's initial getSession is still pending), the completion of that
\* getSession call leaves user as the event set it.
C29_EventNotOverwritten ==
    [][ ( /\ auth.isMounted
          /\ ~auth.loading
          /\ auth.instance \in auth.pending
          /\ auth.instance \notin auth'.pending ) =>
            auth'.user = auth.user
      ]_vars

\* C30: a request that arrived by following a redirect of the middleware,
\* with the same session, is passed through: a chain of redirects has at
\* most one redirect.
C30_AtMostOneRedirect ==
    /\ mw.pc # "idle" => mw.redirects <= 1
    /\ (mw.pc = "responded" /\ mw.redirects = 1) => mw.response = [type |-> "next"]

\* a request for a protected path without a session ended on the login page
C30_Witness ==
    /\ mw.pc = "responded"
    /\ mw.redirects = 1
    /\ mw.session = null
    /\ mw.pathname = <<"/", "a", "u", "t", "h", "/", "l", "o", "g", "i", "n">>
    /\ mw.response.type = "next"

====
